---- MODULE Spec2Model ----
(***************************************************************************)
(* Model of the NetOrca Ansible modules: the client core of                *)
(* plugins/module_utils/netorca_base.py (login, list, filter, update,      *)
(* complete) driven by the run_module entry points of plugins/modules,     *)
(* against a NetOrca server whose answers are nondeterministic inputs.     *)
(***************************************************************************)
EXTENDS Integers, Sequences, FiniteSets, TLC

VARIABLES
    module,            \* which Ansible module this invocation runs
    params,            \* module.params: the dict AnsibleModule hands to run_module
    pc,                \* position of the invocation in run_module / the core
    api_key,           \* run_module's local api_key (the token held)
    db,                \* the server's change instances, in the order it lists them
    requests,          \* every HTTP request sent so far, in order
    outcomes,          \* the server's outcome for each answered request, in order
    inflight,          \* indices (into requests) of requests not yet answered
    response,          \* the JSON body of the last answered request
    approved_changes,  \* complete_change_instances: local approved_changes
    idx,               \* complete_change_instances: instances the for loop has passed
    result,            \* complete_change_instances: local result dict
    reply,             \* value the core function returned to run_module
    exit,              \* what run_module handed to exit_json / fail_json
    fpc,               \* filter harness: position
    fChanges,          \* filter harness: input list
    fService,          \* filter harness: service name
    fOnce,             \* filter harness: filter_change_instances(fChanges, fService)
    fTwice,            \* filter harness: filter_change_instances(fOnce, fService)
    clients,           \* concurrent invocations: each one's locals and wire
    applied            \* concurrent invocations: the PUTs the server applied, in order

vars == << module, params, pc, api_key, db, requests, outcomes, inflight,
           response, approved_changes, idx, result, reply, exit,
           fpc, fChanges, fService, fOnce, fTwice, clients, applied >>

runVars == << module, params, pc, api_key, db, requests, outcomes, inflight,
              response, approved_changes, idx, result, reply, exit >>

filterVars == << fpc, fChanges, fService, fOnce, fTwice >>

concVars == << clients, applied >>

----------------------------------------------------------------------------
(* Bounds *)

\* most change instances the server holds
MaxInstances == 3

\* most entries the server puts on one page of a list response
PageSize == 2

\* longest input list of the filter harness
MaxFilterLen == 3

----------------------------------------------------------------------------
(* Values *)

\* Python's None
NONE == "None"

\* Python truthiness of a str-or-None value
Truthy(v) == v # NONE /\ v # ""

NETORCA_STATES_PENDING == "PENDING"
NETORCA_STATES_APPROVED == "APPROVED"
NETORCA_STATES_COMPLETED == "COMPLETED"
NETORCA_VALID_STATES ==
    { NETORCA_STATES_PENDING, NETORCA_STATES_APPROVED, NETORCA_STATES_COMPLETED }

FIELDS_URL == "url"
FIELDS_API_KEY == "api_key"
FIELDS_USER == "username"
FIELDS_PASS == "password"
FIELDS_SERVICE == "service_name"
FIELDS_STATE == "state"
FIELDS_UUID == "uuid"
FIELDS_DEPLOYED_ITEM == "deployed_item"

PATH_LOGIN == "/api-token-auth/"
PATH_CHANGE_INSTANCES == "/orcabase/change_instances/"
PATH_SERVICE_ITEMS == "/orcabase/service_items/"

\* uuids are opaque; the server holds at most MaxInstances of them
UUID_NAMES == << "u1", "u2", "u3", "u4", "u5" >>
UUIDS == { UUID_NAMES[k] : k \in 1..MaxInstances }
\* the uuids a playbook names for netorca_update_change: one the server may
\* hold and one it never holds
UPDATE_UUIDS == { UUID_NAMES[1], "no-such-uuid" }
SERVICES == { "LoadBalancer", "Firewall" }
DEPLOYED_ITEMS == { "ip-10.0.0.1", "ip-10.0.0.2" }
GOOD_URL == "https://dev.netorca.io"
BAD_URL == "not a url"

\* validators.url
url_valid(u) == u = GOOD_URL

\* the description a change instance has before the client touches it
ORIGINAL_DESCRIPTION == [ note |-> "original" ]

\* a change instance as the server represents it
ChangeInstance(u, st, svc) ==
    [ uuid |-> u, state |-> st, deployed_item |-> NONE,
      description |-> ORIGINAL_DESCRIPTION,
      service_item |-> [ name |-> "item", service |-> [ name |-> svc ] ] ]

----------------------------------------------------------------------------
(* netorca_base.py: pure parts *)

\* urllib.parse.urljoin for the shapes the client uses: a base that ends in
\* "/" (or has no path) joined with a path, a "?query" or a "name/" segment.
\* A URL is the sequence of its parts.
urljoin(base, rel) == base \o rel

RECURSIVE filter_from_prepending(_, _, _, _)
\* a filter loop that puts each match in front of the result
filter_from_prepending(changes, service, i, acc) ==
    IF i > Len(changes) THEN acc
    ELSE filter_from_prepending(changes, service, i + 1,
             IF changes[i].service_item.service.name = service
             THEN << changes[i] >> \o acc
             ELSE acc)

\* filter_change_instances with result.insert(0, change) for result.append
filter_change_instances_prepending(changes, service) ==
    filter_from_prepending(changes, service, 1, << >>)

\* filter_change_instances keeping the changes of every service
filter_change_instances_unfiltered(changes, service) == changes

RECURSIVE filter_from(_, _, _, _)
\* the for loop of filter_change_instances, from position i with result so far
filter_from(changes, service, i, acc) ==
    IF i > Len(changes) THEN acc
    ELSE filter_from(changes, service, i + 1,
             IF changes[i].service_item.service.name = service
             THEN Append(acc, changes[i])
             ELSE acc)

filter_change_instances(changes, service) ==
    filter_from(changes, service, 1, << >>)

\* the error body the server sends with a non-success status
ERROR_BODY == [ detail |-> "error" ]

\* change_instances_url without the state query
change_instances_url_unfiltered(base_url, state) ==
    urljoin(<< base_url >>, << PATH_CHANGE_INSTANCES >>)

\* get_change_instances up to the request: the URL it asks for
change_instances_url(base_url, state) ==
    LET url == urljoin(<< base_url >>, << PATH_CHANGE_INSTANCES >>)
    IN  IF Truthy(state) THEN urljoin(url, << "?state=", state >>) ELSE url

\* get_change_instances_result without the count == 0 return
get_change_instances_result_uncounted(resp, service_name) ==
    IF "count" \notin DOMAIN resp THEN [ raised |-> TRUE, value |-> << >> ]
    ELSE IF "results" \notin DOMAIN resp THEN [ raised |-> TRUE, value |-> << >> ]
    ELSE IF Truthy(service_name)
         THEN [ raised |-> FALSE,
                value |-> filter_change_instances(resp.results, service_name) ]
         ELSE [ raised |-> FALSE, value |-> resp.results ]

\* get_change_instances after the request: what it makes of the response.
\* [raised |-> TRUE] is a KeyError on a missing field.
get_change_instances_result(resp, service_name) ==
    IF "count" \notin DOMAIN resp THEN [ raised |-> TRUE, value |-> << >> ]
    ELSE IF resp.count = 0 THEN [ raised |-> FALSE, value |-> << >> ]
    ELSE IF "results" \notin DOMAIN resp THEN [ raised |-> TRUE, value |-> << >> ]
    ELSE IF Truthy(service_name)
         THEN [ raised |-> FALSE,
                value |-> filter_change_instances(resp.results, service_name) ]
         ELSE [ raised |-> FALSE, value |-> resp.results ]

\* get_service_items up to the request
service_items_url(base_url, service_name) ==
    urljoin(urljoin(<< base_url >>, << PATH_SERVICE_ITEMS >>),
            << "?service_name=", service_name >>)

\* get_service_items after the request
get_service_items_result(resp) ==
    IF "count" \notin DOMAIN resp THEN [ raised |-> TRUE, value |-> << >> ]
    ELSE IF resp.count = 0 THEN [ raised |-> FALSE, value |-> << >> ]
    ELSE IF "results" \notin DOMAIN resp THEN [ raised |-> TRUE, value |-> << >> ]
    ELSE [ raised |-> FALSE, value |-> resp.results ]

\* update_change_instance: the URL of one change instance
change_instance_url(base_url, uuid) ==
    urljoin(urljoin(<< base_url >>, << PATH_CHANGE_INSTANCES >>), << uuid, "/" >>)

\* the Authorization header of an authenticated call
auth_headers(token) == [ Authorization |-> << "Token ", token >> ]

\* update_change_instance: the PUT it sends
update_change_instance_request(base_url, token, uuid, data) ==
    [ method |-> "PUT", url |-> change_instance_url(base_url, uuid),
      headers |-> auth_headers(token), json |-> data ]

\* update_change_instance returning a wrapper around the response
update_change_instance_return_wrapped(resp) == [ response |-> resp ]

\* update_change_instance: the value it returns for the server's response
update_change_instance_return(resp) == resp

\* get_change_instances: the GET it sends
get_change_instances_request(base_url, token, state) ==
    [ method |-> "GET", url |-> change_instances_url(base_url, state),
      headers |-> auth_headers(token), json |-> NONE ]

\* get_service_items: the GET it sends
get_service_items_request(base_url, token, service_name) ==
    [ method |-> "GET", url |-> service_items_url(base_url, service_name),
      headers |-> auth_headers(token), json |-> NONE ]

\* login: the POST it sends
login_request(base_url, username, password) ==
    [ method |-> "POST", url |-> urljoin(<< base_url >>, << PATH_LOGIN >>),
      headers |-> [ Authorization |-> << >> ],
      json |-> [ username |-> username, password |-> password ] ]

\* login: what it makes of the response ([raised |-> TRUE] is a KeyError)
login_result(resp) ==
    IF "token" \in DOMAIN resp THEN [ raised |-> FALSE, value |-> resp.token ]
    ELSE [ raised |-> TRUE, value |-> NONE ]

\* complete_change_instances sending the state without the deployed item
complete_data_without_item(deployed_item) ==
    [ state |-> NETORCA_STATES_COMPLETED ]

\* complete_change_instances: the data of one iteration
complete_data(deployed_item) ==
    [ state |-> NETORCA_STATES_COMPLETED, deployed_item |-> deployed_item ]

\* a for loop over reversed(approved_changes)
loop_change_reversed(changes, done) == changes[Len(changes) - done]

\* complete_change_instances: the change the for loop visits after `done` others
loop_change(changes, done) == changes[done + 1]

\* complete_change_instances: result at the start
result_start == [ count |-> 0, msg |-> << "Starting" >>, successful |-> FALSE ]

\* result with the count left as it was
result_counted_forgotten(res) == res

\* complete_change_instances: result after one more update call returned
result_counted(res) == [ res EXCEPT !.count = @ + 1 ]

\* complete_change_instances: result after the loop
result_final(res) ==
    [ res EXCEPT !.successful = TRUE,
                 !.msg = << "Completed ", res.count, " changes" >> ]

\* netorca_update_change.run_module: the data it builds
update_data(p) ==
    LET data == [ description |-> [ test |-> "test" ], state |-> p[FIELDS_STATE] ]
    IN  IF FIELDS_DEPLOYED_ITEM \in DOMAIN p /\ Truthy(p[FIELDS_DEPLOYED_ITEM])
        THEN [ description |-> data.description, state |-> data.state,
               deployed_item |-> p[FIELDS_DEPLOYED_ITEM] ]
        ELSE data

----------------------------------------------------------------------------
(* plugins/modules: parameter validation *)

MODULE_COMPLETE == "netorca_complete_changes"
MODULE_UPDATE == "netorca_update_change"
MODULE_GET_CHANGES == "netorca_get_changes"
MODULE_GET_SERVICE_ITEMS == "netorca_get_service_items"
MODULES ==
    { MODULE_COMPLETE, MODULE_UPDATE, MODULE_GET_CHANGES, MODULE_GET_SERVICE_ITEMS }

\* the credentials check all four validate_params share
credentials_supplied(p) ==
    FIELDS_API_KEY \in DOMAIN p
        \/ (FIELDS_USER \in DOMAIN p /\ FIELDS_PASS \in DOMAIN p)

\* netorca_complete_changes.validate_params
validate_params_complete(p) ==
    /\ credentials_supplied(p)
    /\ url_valid(p[FIELDS_URL])
    /\ ~(FIELDS_SERVICE \notin DOMAIN p \/ ~Truthy(p[FIELDS_SERVICE]))

\* netorca_update_change.validate_params
validate_params_update(p) ==
    /\ credentials_supplied(p)
    /\ url_valid(p[FIELDS_URL])
    /\ (FIELDS_STATE \in DOMAIN p => p[FIELDS_STATE] \in NETORCA_VALID_STATES)

\* netorca_get_changes.validate_params
validate_params_get_changes(p) ==
    /\ credentials_supplied(p)
    /\ url_valid(p[FIELDS_URL])
    /\ (FIELDS_STATE \in DOMAIN p => p[FIELDS_STATE] \in NETORCA_VALID_STATES)

\* netorca_get_service_items.validate_params
validate_params_get_service_items(p) ==
    /\ credentials_supplied(p)
    /\ url_valid(p[FIELDS_URL])
    /\ ((FIELDS_STATE \in DOMAIN p /\ Truthy(p[FIELDS_STATE]))
            => p[FIELDS_STATE] \in NETORCA_VALID_STATES)

validate_params(m, p) ==
    CASE m = MODULE_COMPLETE -> validate_params_complete(p)
      [] m = MODULE_UPDATE -> validate_params_update(p)
      [] m = MODULE_GET_CHANGES -> validate_params_get_changes(p)
      [] m = MODULE_GET_SERVICE_ITEMS -> validate_params_get_service_items(p)

\* run_module logging in whether or not an api_key was supplied
needs_login_always(p) == TRUE

\* run_module: no api_key supplied, so login is called
needs_login(p) == FIELDS_API_KEY \notin DOMAIN p \/ ~Truthy(p[FIELDS_API_KEY])

\* netorca_get_changes.run_module: the state it lists
get_changes_state(p) ==
    IF FIELDS_STATE \in DOMAIN p /\ Truthy(p[FIELDS_STATE])
    THEN p[FIELDS_STATE]
    ELSE NETORCA_STATES_APPROVED

----------------------------------------------------------------------------
(* The NetOrca server *)

\* the state a list URL asks for ("" when it has no query)
query_of(url) == IF Len(url) = 4 THEN url[4] ELSE ""

\* the uuid a change instance URL names
uuid_of(url) == url[3]

\* the first page of a list
first_page(items) ==
    SubSeq(items, 1, IF Len(items) < PageSize THEN Len(items) ELSE PageSize)

\* the change instances a list request matches, in the server's order
server_matching(d, url) ==
    IF query_of(url) = "" THEN d
    ELSE SelectSeq(d, LAMBDA c : c.state = query_of(url))

\* the service items a list request matches, one per change instance
server_items(d, url) ==
    LET items == [ k \in 1..Len(d) |-> d[k].service_item ]
    IN  SelectSeq(items, LAMBDA it : it.service.name = query_of(url))

\* the JSON bodies the server may answer a list request with: the count and
\* the first page, the count reported as 0, the results left out
list_bodies(matching) ==
    { [ count |-> c, results |-> first_page(matching) ] : c \in { Len(matching), 0 } }
        \cup { [ count |-> c ] : c \in { Len(matching), 0 } }

\* the server's change instances after a PUT of data to uuid took effect
server_put(d, uuid, data) ==
    [ k \in 1..Len(d) |->
        IF d[k].uuid # uuid THEN d[k]
        ELSE [ d[k] EXCEPT
                 !.state = data.state,
                 !.deployed_item =
                     IF "deployed_item" \in DOMAIN data THEN data.deployed_item ELSE @,
                 !.description =
                     IF "description" \in DOMAIN data THEN data.description ELSE @ ] ]

\* the representation of uuid the server answers a successful PUT with
server_representation(d, uuid) ==
    LET hits == SelectSeq(d, LAMBDA c : c.uuid = uuid)
    IN  IF Len(hits) > 0 THEN hits[1] ELSE ERROR_BODY

\* the tokens login may be answered with
LOGIN_TOKENS == { "abc123", "", NONE }

----------------------------------------------------------------------------
(* Initial states *)

\* sequences over S without repeated uuids, of length at most n
RECURSIVE InstanceLists(_)
InstanceLists(n) ==
    IF n = 0 THEN { << >> }
    ELSE LET shorter == InstanceLists(n - 1)
         IN  shorter \cup
             { Append(l, ChangeInstance(u, st, svc)) :
                 l \in { x \in shorter : Len(x) = n - 1 },
                 u \in UUIDS,
                 st \in { NETORCA_STATES_PENDING, NETORCA_STATES_APPROVED },
                 svc \in SERVICES }

NoRepeatedUuid(l) ==
    \A a, b \in 1..Len(l) : l[a].uuid = l[b].uuid => a = b

InitialDbs == { l \in InstanceLists(MaxInstances) : NoRepeatedUuid(l) }

\* netorca_update_change names one uuid: the server holds it or not, and
\* the instances beside it play no part
InitialDbsOf(m) ==
    IF m = MODULE_UPDATE THEN { l \in InitialDbs : Len(l) <= 1 } ELSE InitialDbs

\* the three ways a playbook fills the credential parameters
CREDENTIALS ==
    { [ api_key |-> "key1", username |-> NONE, password |-> NONE ],
      [ api_key |-> NONE, username |-> "alice", password |-> "secret" ],
      [ api_key |-> NONE, username |-> NONE, password |-> NONE ] }

\* module.params: AnsibleModule fills every parameter of FIELDS, None when
\* the playbook leaves it out
ParamsOf(m) ==
    CASE m = MODULE_COMPLETE ->
           { [ url |-> u, api_key |-> c.api_key, username |-> c.username,
               password |-> c.password, service_name |-> s, deployed_item |-> d ] :
               u \in { GOOD_URL, BAD_URL }, c \in CREDENTIALS,
               s \in SERVICES \cup { "" }, d \in DEPLOYED_ITEMS }
      [] m = MODULE_UPDATE ->
           { [ url |-> u, api_key |-> c.api_key, username |-> c.username,
               password |-> c.password, state |-> st, uuid |-> id,
               deployed_item |-> d ] :
               u \in { GOOD_URL, BAD_URL }, c \in CREDENTIALS,
               st \in NETORCA_VALID_STATES \cup { "BOGUS" }, id \in UPDATE_UUIDS,
               d \in DEPLOYED_ITEMS \cup { NONE } }
      [] m = MODULE_GET_CHANGES ->
           { [ url |-> u, api_key |-> c.api_key, username |-> c.username,
               password |-> c.password, state |-> st ] :
               u \in { GOOD_URL, BAD_URL }, c \in CREDENTIALS,
               st \in NETORCA_VALID_STATES \cup { "BOGUS", NONE } }
      [] m = MODULE_GET_SERVICE_ITEMS ->
           { [ url |-> u, api_key |-> c.api_key, username |-> c.username,
               password |-> c.password, service_name |-> s, state |-> st ] :
               u \in { GOOD_URL, BAD_URL }, c \in CREDENTIALS,
               s \in SERVICES, st \in { NETORCA_STATES_APPROVED, "BOGUS", NONE } }

NO_RESPONSE == [ none |-> TRUE ]
NO_REPLY == [ returned |-> FALSE, value |-> NONE ]
NO_EXIT == [ kind |-> "running" ]

ConcIdle ==
    /\ clients = << >>
    /\ applied = << >>

FilterIdle ==
    /\ fpc = "off"
    /\ fChanges = << >>
    /\ fService = ""
    /\ fOnce = << >>
    /\ fTwice = << >>

RunIdle ==
    /\ module = MODULE_COMPLETE
    /\ params = [ url |-> BAD_URL ]
    /\ pc = "off"
    /\ api_key = NONE
    /\ db = << >>
    /\ requests = << >>
    /\ outcomes = << >>
    /\ inflight = {}
    /\ response = NO_RESPONSE
    /\ approved_changes = << >>
    /\ idx = 0
    /\ result = result_start
    /\ reply = NO_REPLY
    /\ exit = NO_EXIT

Init ==
    /\ module \in MODULES
    /\ params \in ParamsOf(module)
    /\ pc = "start"
    /\ api_key = NONE
    /\ db \in InitialDbsOf(module)
    /\ requests = << >>
    /\ outcomes = << >>
    /\ inflight = {}
    /\ response = NO_RESPONSE
    /\ approved_changes = << >>
    /\ idx = 0
    /\ result = result_start
    /\ reply = NO_REPLY
    /\ exit = NO_EXIT
    /\ FilterIdle
    /\ ConcIdle

----------------------------------------------------------------------------
(* Sending and answering requests *)

\* requests.get / requests.post / requests.put: the request leaves
Send(req) ==
    /\ requests' = Append(requests, req)
    /\ inflight' = inflight \cup { Len(requests) + 1 }

\* the request in flight is answered: outcome o ("ok", "http_error" with a
\* JSON error body, "raise" with nothing to read) and JSON body
Answered(o, body) ==
    /\ inflight' = {}
    /\ response' = body
    /\ outcomes' = Append(outcomes, [ outcome |-> o, body |-> body ])

\* the request the invocation waits for
Pending == requests[Len(requests)]

----------------------------------------------------------------------------
(* run_module *)

\* run_module up to its first blocking call: validate_params, then login or
\* the supplied api_key
run_module_start ==
    /\ pc = "start"
    /\ IF ~validate_params(module, params)
       THEN /\ pc' = "failed"
            /\ exit' = [ kind |-> "fail_json" ]
            /\ UNCHANGED << api_key, requests, inflight >>
       ELSE IF needs_login(params)
       THEN /\ Send(login_request(params[FIELDS_URL], params[FIELDS_USER],
                                  params[FIELDS_PASS]))
            /\ pc' = "login"
            /\ UNCHANGED << api_key, exit >>
       ELSE /\ api_key' = params[FIELDS_API_KEY]
            /\ pc' = "authed"
            /\ UNCHANGED << requests, inflight, exit >>
    /\ UNCHANGED << module, params, db, outcomes, response, approved_changes,
                    idx, result, reply >>
    /\ UNCHANGED filterVars
    /\ UNCHANGED concVars

\* login: the POST is answered with a JSON body that has a token field (the
\* server answers so only when it was sent a username and a password)
login_returns ==
    /\ pc = "login"
    /\ Pending.json.username # NONE
    /\ Pending.json.password # NONE
    /\ \E t \in LOGIN_TOKENS :
         /\ Answered("ok", [ token |-> t ])
         /\ ~login_result([ token |-> t ]).raised
         /\ api_key' = login_result([ token |-> t ]).value
    /\ pc' = "authed"
    /\ UNCHANGED << module, params, db, requests, approved_changes, idx, result,
                    reply, exit >>
    /\ UNCHANGED filterVars
    /\ UNCHANGED concVars

\* login: the exchange is rejected (a JSON body without a token field, a
\* KeyError) or the transport fails
login_raises ==
    /\ pc = "login"
    /\ \/ Answered("raise", NO_RESPONSE)
       \/ /\ Answered("http_error", ERROR_BODY)
          /\ login_result(ERROR_BODY).raised
    /\ pc' = "raised"
    /\ UNCHANGED << module, params, api_key, db, requests, approved_changes, idx,
                    result, reply, exit >>
    /\ UNCHANGED filterVars
    /\ UNCHANGED concVars

\* run_module calls the core with the token: the core's first request leaves
core_call ==
    /\ pc = "authed"
    /\ CASE module = MODULE_COMPLETE ->
              /\ result' = result_start
              /\ Send(get_change_instances_request(
                          params[FIELDS_URL], api_key, NETORCA_STATES_APPROVED))
              /\ pc' = "list"
         [] module = MODULE_GET_CHANGES ->
              /\ Send(get_change_instances_request(
                          params[FIELDS_URL], api_key, get_changes_state(params)))
              /\ pc' = "list"
              /\ UNCHANGED result
         [] module = MODULE_GET_SERVICE_ITEMS ->
              /\ Send(get_service_items_request(
                          params[FIELDS_URL], api_key, params[FIELDS_SERVICE]))
              /\ pc' = "items"
              /\ UNCHANGED result
         [] module = MODULE_UPDATE ->
              /\ Send(update_change_instance_request(
                          params[FIELDS_URL], api_key, params[FIELDS_UUID],
                          update_data(params)))
              /\ pc' = "update"
              /\ UNCHANGED result
    /\ UNCHANGED << module, params, api_key, db, outcomes, response,
                    approved_changes, idx, reply, exit >>
    /\ UNCHANGED filterVars
    /\ UNCHANGED concVars

\* the service name get_change_instances is called with
list_service_name ==
    IF module = MODULE_COMPLETE THEN params[FIELDS_SERVICE] ELSE ""

\* get_change_instances: the GET is answered with a JSON body and the
\* function returns; netorca_get_changes then exits with the list
get_change_instances_returns ==
    /\ pc = "list"
    /\ \E body \in list_bodies(server_matching(db, Pending.url)) :
         /\ Answered("ok", body)
         /\ ~get_change_instances_result(body, list_service_name).raised
         /\ IF module = MODULE_COMPLETE
            THEN /\ approved_changes' =
                        get_change_instances_result(body, list_service_name).value
                 /\ idx' = 0
                 /\ pc' = "loop"
                 /\ UNCHANGED << reply, exit >>
            ELSE /\ reply' =
                        [ returned |-> TRUE,
                          value |-> get_change_instances_result(
                                        body, list_service_name).value ]
                 /\ exit' = [ kind |-> "exit_json", change_instances |-> reply'.value,
                              changed |-> FALSE,
                              message |-> << "Found ", Len(reply'.value),
                                             " change items" >> ]
                 /\ pc' = "done"
                 /\ UNCHANGED << approved_changes, idx >>
    /\ UNCHANGED << module, params, api_key, db, requests, result >>
    /\ UNCHANGED filterVars
    /\ UNCHANGED concVars

\* get_change_instances: the transport fails, the server answers with an
\* error body, or the body lacks a field the function reads
get_change_instances_raises ==
    /\ pc = "list"
    /\ \/ Answered("raise", NO_RESPONSE)
       \/ /\ Answered("http_error", ERROR_BODY)
          /\ get_change_instances_result(ERROR_BODY, list_service_name).raised
       \/ \E body \in list_bodies(server_matching(db, Pending.url)) :
               /\ Answered("ok", body)
               /\ get_change_instances_result(body, list_service_name).raised
    /\ pc' = "raised"
    /\ UNCHANGED << module, params, api_key, db, requests, approved_changes, idx,
                    result, reply, exit >>
    /\ UNCHANGED filterVars
    /\ UNCHANGED concVars

\* get_service_items: the GET is answered and netorca_get_service_items exits
get_service_items_returns ==
    /\ pc = "items"
    /\ \E body \in list_bodies(server_items(db, Pending.url)) :
         /\ Answered("ok", body)
         /\ ~get_service_items_result(body).raised
         /\ reply' = [ returned |-> TRUE, value |-> get_service_items_result(body).value ]
         /\ exit' = [ kind |-> "exit_json", service_items |-> reply'.value,
                      changed |-> FALSE,
                      message |-> << "Found ", Len(reply'.value),
                                     " service instances" >> ]
    /\ pc' = "done"
    /\ UNCHANGED << module, params, api_key, db, requests, approved_changes, idx,
                    result >>
    /\ UNCHANGED filterVars
    /\ UNCHANGED concVars

\* get_service_items: transport failure, error body or missing field
get_service_items_raises ==
    /\ pc = "items"
    /\ \/ Answered("raise", NO_RESPONSE)
       \/ /\ Answered("http_error", ERROR_BODY)
          /\ get_service_items_result(ERROR_BODY).raised
       \/ \E body \in list_bodies(server_items(db, Pending.url)) :
               /\ Answered("ok", body)
               /\ get_service_items_result(body).raised
    /\ pc' = "raised"
    /\ UNCHANGED << module, params, api_key, db, requests, approved_changes, idx,
                    result, reply, exit >>
    /\ UNCHANGED filterVars
    /\ UNCHANGED concVars

\* complete_change_instances: one iteration of the for loop up to its
\* update_change_instance call, whose PUT leaves
complete_loop_update ==
    /\ pc = "loop"
    /\ idx < Len(approved_changes)
    /\ Send(update_change_instance_request(
                params[FIELDS_URL], api_key,
                loop_change(approved_changes, idx).uuid,
                complete_data(params[FIELDS_DEPLOYED_ITEM])))
    /\ pc' = "update"
    /\ UNCHANGED << module, params, api_key, db, outcomes, response,
                    approved_changes, idx, result, reply, exit >>
    /\ UNCHANGED filterVars
    /\ UNCHANGED concVars

\* complete_change_instances: the for loop is exhausted, the result is
\* returned and netorca_complete_changes exits with it
complete_loop_end ==
    /\ pc = "loop"
    /\ idx >= Len(approved_changes)
    /\ result' = result_final(result)
    /\ reply' = [ returned |-> TRUE, value |-> result' ]
    /\ exit' = IF ~result'.successful
               THEN [ kind |-> "fail_json" ]
               ELSE [ kind |-> "exit_json", changed |-> result'.count > 0,
                      message |-> result'.msg ]
    /\ pc' = "done"
    /\ UNCHANGED << module, params, api_key, db, requests, outcomes, inflight,
                    response, approved_changes, idx >>
    /\ UNCHANGED filterVars
    /\ UNCHANGED concVars

\* where a caller of update_change_instance goes when it returns r
UpdateReturned(r) ==
    IF module = MODULE_COMPLETE
    THEN /\ result' = result_counted(result)
         /\ idx' = idx + 1
         /\ pc' = "loop"
         /\ UNCHANGED << reply, exit >>
    ELSE /\ reply' = [ returned |-> TRUE, value |-> r ]
         /\ exit' = [ kind |-> "exit_json", changed |-> TRUE, change_instance |-> r,
                      message |-> << "Updated ", params[FIELDS_UUID],
                                     " change item" >> ]
         /\ pc' = "done"
         /\ UNCHANGED << result, idx >>

\* the uuids the server holds
ServerUuids == { db[k].uuid : k \in 1..Len(db) }

\* update_change_instance: the server applies the PUT and answers with the
\* updated representation, which the function returns
update_change_instance_returns_ok ==
    /\ pc = "update"
    /\ uuid_of(Pending.url) \in ServerUuids
    /\ db' = server_put(db, uuid_of(Pending.url), Pending.json)
    /\ Answered("ok", server_representation(db', uuid_of(Pending.url)))
    /\ UpdateReturned(update_change_instance_return(response'))
    /\ UNCHANGED << module, params, api_key, requests, approved_changes >>
    /\ UNCHANGED filterVars
    /\ UNCHANGED concVars

\* update_change_instance_returns_error with a for loop that tries the same
\* change again after a rejected PUT
update_change_instance_returns_error_retried ==
    /\ pc = "update"
    /\ Answered("http_error", ERROR_BODY)
    /\ IF module = MODULE_COMPLETE
       THEN /\ pc' = "loop"
            /\ UNCHANGED << result, idx, reply, exit >>
       ELSE UpdateReturned(update_change_instance_return(ERROR_BODY))
    /\ UNCHANGED << module, params, api_key, db, requests, approved_changes >>
    /\ UNCHANGED filterVars
    /\ UNCHANGED concVars

\* update_change_instance: the server rejects the PUT with a non-success
\* status and a JSON error body, which the function returns like any other
update_change_instance_returns_error ==
    /\ pc = "update"
    /\ Answered("http_error", ERROR_BODY)
    /\ UpdateReturned(update_change_instance_return(response'))
    /\ UNCHANGED << module, params, api_key, db, requests, approved_changes >>
    /\ UNCHANGED filterVars
    /\ UNCHANGED concVars

\* update_change_instance_raises with the exception caught inside the for
\* loop, which goes on to the next change
update_change_instance_raises_caught ==
    /\ pc = "update"
    /\ \/ db' = db
       \/ /\ uuid_of(Pending.url) \in ServerUuids
          /\ db' = server_put(db, uuid_of(Pending.url), Pending.json)
    /\ Answered("raise", NO_RESPONSE)
    /\ IF module = MODULE_COMPLETE
       THEN pc' = "loop" /\ idx' = idx + 1
       ELSE pc' = "raised" /\ idx' = idx
    /\ UNCHANGED << module, params, api_key, requests, approved_changes,
                    result, reply, exit >>
    /\ UNCHANGED filterVars
    /\ UNCHANGED concVars

\* update_change_instance: the transport fails or the body is no JSON; the
\* server may or may not have applied the PUT
update_change_instance_raises ==
    /\ pc = "update"
    /\ \/ db' = db
       \/ /\ uuid_of(Pending.url) \in ServerUuids
          /\ db' = server_put(db, uuid_of(Pending.url), Pending.json)
    /\ Answered("raise", NO_RESPONSE)
    /\ pc' = "raised"
    /\ UNCHANGED << module, params, api_key, requests, approved_changes, idx,
                    result, reply, exit >>
    /\ UNCHANGED filterVars
    /\ UNCHANGED concVars

Next ==
    \/ run_module_start
    \/ login_returns
    \/ login_raises
    \/ core_call
    \/ get_change_instances_returns
    \/ get_change_instances_raises
    \/ get_service_items_returns
    \/ get_service_items_raises
    \/ complete_loop_update
    \/ complete_loop_end
    \/ update_change_instance_returns_ok
    \/ update_change_instance_returns_error
    \/ update_change_instance_raises

Spec == Init /\ [][Next]_vars

----------------------------------------------------------------------------
(* filter_change_instances on its own: every list, every service name *)

\* the change instances the lists are built from (repeats allowed)
FilterElements ==
    { ChangeInstance(u, NETORCA_STATES_APPROVED, svc) :
        u \in { UUID_NAMES[1], UUID_NAMES[2] }, svc \in SERVICES }

RECURSIVE FilterLists(_)
FilterLists(n) ==
    IF n = 0 THEN { << >> }
    ELSE LET shorter == FilterLists(n - 1)
         IN  shorter \cup
             { Append(l, e) : l \in { x \in shorter : Len(x) = n - 1 },
                              e \in FilterElements }

FilterServices == SERVICES \cup { "", "Database" }

InitFilter ==
    /\ RunIdle
    /\ ConcIdle
    /\ fpc = "start"
    /\ fChanges \in FilterLists(MaxFilterLen)
    /\ fService \in FilterServices
    /\ fOnce = << >>
    /\ fTwice = << >>

\* filter_change_instances(changes, service)
filter_once ==
    /\ fpc = "start"
    /\ fOnce' = filter_change_instances(fChanges, fService)
    /\ fpc' = "once"
    /\ UNCHANGED << fChanges, fService, fTwice >>
    /\ UNCHANGED runVars
    /\ UNCHANGED concVars

\* filter_change_instances applied to its own result
filter_twice ==
    /\ fpc = "once"
    /\ fTwice' = filter_change_instances(fOnce, fService)
    /\ fpc' = "twice"
    /\ UNCHANGED << fChanges, fService, fOnce >>
    /\ UNCHANGED runVars
    /\ UNCHANGED concVars

NextFilter == filter_once \/ filter_twice

SpecFilter == InitFilter /\ [][NextFilter]_vars

----------------------------------------------------------------------------
(* Reading a run *)

\* the indices of the PUT requests, and the PUT requests in the order sent
PutIndices == { k \in 1..Len(requests) : requests[k].method = "PUT" }
Puts == SelectSeq(requests, LAMBDA r : r.method = "PUT")

\* the indices of the GET requests
GetIndices == { k \in 1..Len(requests) : requests[k].method = "GET" }

\* request k has been answered
IsAnswered(k) == k <= Len(outcomes)

\* the list request of the run has been answered with a JSON body
ListAnswered ==
    \E k \in GetIndices : IsAnswered(k) /\ outcomes[k].outcome = "ok"

\* that body
ListBody == outcomes[CHOOSE k \in GetIndices : TRUE].body

\* the positions of body.results whose instance belongs to service
MatchPositions(body, service) ==
    IF "results" \notin DOMAIN body THEN {}
    ELSE { k \in 1..Len(body.results) :
             body.results[k].service_item.service.name = service }

\* the j-th instance of service in body.results, counted from 1
NthMatch(body, service, j) ==
    LET pos == MatchPositions(body, service)
    IN  body.results[CHOOSE k \in pos : Cardinality({ h \in pos : h <= k }) = j]

\* the outcomes of the PUT requests answered so far
PutOutcomes == { outcomes[k].outcome : k \in { h \in PutIndices : IsAnswered(h) } }

\* a completion run that ended with a returned result
CompleteDone == module = MODULE_COMPLETE /\ pc = "done"

----------------------------------------------------------------------------
(* Claims *)

\* C1: when the list request returns N approved instances of the named
\* service and every update call succeeds, complete_change_instances has
\* issued exactly N PUTs, the j-th to the j-th returned instance, each with
\* state COMPLETED and the same deployed_item, and returns count = N and
\* successful = true.
C1_CompleteAllApproved ==
    (CompleteDone /\ ListBody.count # 0 /\ PutOutcomes \subseteq { "ok" }) =>
        LET n == Cardinality(MatchPositions(ListBody, params[FIELDS_SERVICE]))
        IN  /\ Len(Puts) = n
            /\ \A j \in 1..Len(Puts) :
                 /\ uuid_of(Puts[j].url) =
                        NthMatch(ListBody, params[FIELDS_SERVICE], j).uuid
                 /\ Puts[j].json.state = NETORCA_STATES_COMPLETED
                 /\ Puts[j].json.deployed_item = params[FIELDS_DEPLOYED_ITEM]
            /\ reply.returned
            /\ reply.value.count = n
            /\ reply.value.successful = TRUE

\* a completion run over two approved instances of the service, all updated
C1_Witness ==
    /\ CompleteDone
    /\ ListBody.count # 0
    /\ PutOutcomes = { "ok" }
    /\ Len(Puts) = 2
    /\ reply.value.count = 2

\* C2: with zero approved instances of the named service (the server
\* reports count 0, or no returned instance has the service) no PUT is ever
\* issued, and the run returns count = 0 and successful = true.
C2_CompleteNothing ==
    (module = MODULE_COMPLETE /\ ListAnswered
        /\ (ListBody.count = 0
              \/ ("results" \in DOMAIN ListBody
                    /\ MatchPositions(ListBody, params[FIELDS_SERVICE]) = {}))) =>
        /\ PutIndices = {}
        /\ pc \in { "loop", "done" }
        /\ pc = "done" =>
             /\ reply.returned
             /\ reply.value.count = 0
             /\ reply.value.successful = TRUE

\* the server reported count 0 next to results of the named service, and the
\* run returned without an update
C2_Witness ==
    /\ CompleteDone
    /\ ListBody.count = 0
    /\ MatchPositions(ListBody, params[FIELDS_SERVICE]) # {}
    /\ PutIndices = {}
    /\ reply.value.count = 0

\* an update call of this run raised
UpdateRaised ==
    \E k \in PutIndices : IsAnswered(k) /\ outcomes[k].outcome = "raise"

\* the state the server holds for uuid
ServerState(uuid) ==
    LET hits == SelectSeq(db, LAMBDA c : c.uuid = uuid) IN hits[1].state

\* C3: once an update call of a completion run has raised, that PUT is the
\* last request of the run: no later update, no rollback request; the
\* instances updated before it are still COMPLETED on the server; and no
\* result is returned, so successful = true is never observed.
C3_AbortOnRaise ==
    (module = MODULE_COMPLETE /\ UpdateRaised) =>
        /\ outcomes[Len(requests)].outcome = "raise"
        /\ \A k \in PutIndices : k < Len(requests) => outcomes[k].outcome # "raise"
        /\ \A k \in PutIndices :
             /\ requests[k].json.state = NETORCA_STATES_COMPLETED
             /\ (k < Len(requests) /\ outcomes[k].outcome = "ok")
                    => ServerState(uuid_of(requests[k].url)) = NETORCA_STATES_COMPLETED
        /\ Len(Puts) = idx + 1
        /\ ~reply.returned
        /\ exit = NO_EXIT
        /\ result.successful = FALSE

\* the second update of a batch raised after the first had been applied
C3_Witness ==
    /\ module = MODULE_COMPLETE
    /\ UpdateRaised
    /\ Len(Puts) = 2
    /\ Len(approved_changes) = 2
    /\ outcomes[Len(requests) - 1].outcome = "ok"

\* C4: requests leave one at a time, each after the one before it has been
\* answered, and the j-th PUT of a completion run targets the j-th instance
\* the list operation returned.
C4_SequentialInOrder ==
    /\ Cardinality(inflight) <= 1
    /\ \A k \in 1..Len(requests) : k < Len(requests) => IsAnswered(k)
    /\ \A k \in inflight : k = Len(requests) /\ ~IsAnswered(k)
    /\ module = MODULE_COMPLETE =>
         \A j \in 1..Len(Puts) :
             /\ j <= Cardinality(MatchPositions(ListBody, params[FIELDS_SERVICE]))
             /\ uuid_of(Puts[j].url) =
                    NthMatch(ListBody, params[FIELDS_SERVICE], j).uuid

\* the second PUT of a batch is in flight, the first one answered
C4_Witness ==
    /\ module = MODULE_COMPLETE
    /\ pc = "update"
    /\ Len(Puts) = 2
    /\ inflight = { Len(requests) }

\* the PUT requests of the run that the server answered with success
SucceededPuts == { k \in PutIndices : IsAnswered(k) /\ outcomes[k].outcome = "ok" }

\* C5 (as claimed): when complete_change_instances returns, count is the
\* number of PUTs the server answered with success, and no result with
\* successful = true is returned after a PUT answered with a non-success
\* status.
C5_CountIsSucceeded ==
    CompleteDone =>
        /\ reply.value.count = Cardinality(SucceededPuts)
        /\ ("http_error" \in PutOutcomes => reply.value.successful # TRUE)

\* is the list r the elements of l that belong to service, in l's order?
IsFiltered(r, l, service) ==
    LET pos == { k \in 1..Len(l) : l[k].service_item.service.name = service }
    IN  /\ Len(r) = Cardinality(pos)
        /\ \A k \in pos : r[Cardinality({ h \in pos : h <= k })] = l[k]

\* C6: filter_change_instances returns the elements of its input that
\* belong to the service, in the input's order and none missing; filtering
\* the result again returns the same list; a name no element has returns
\* the empty list.
C6_FilterSubsequence ==
    /\ fpc \in { "once", "twice" } =>
         /\ IsFiltered(fOnce, fChanges, fService)
         /\ (\A k \in 1..Len(fChanges) :
                 fChanges[k].service_item.service.name # fService) => fOnce = << >>
    /\ fpc = "twice" => fTwice = fOnce

\* a list with elements of both services was filtered to two elements, twice
C6_Witness ==
    /\ fpc = "twice"
    /\ Len(fOnce) = 2
    /\ Len(fChanges) = 3
    /\ fOnce[1] # fOnce[2]
    /\ fChanges[1].service_item.service.name # fService

\* C7: get_change_instances(state = s) returns only instances whose state
\* is s, and returns the empty list whenever the response reports count 0,
\* results present or not.
C7_ListByState ==
    (module = MODULE_GET_CHANGES /\ ListAnswered) =>
        /\ ListBody.count = 0 =>
             /\ pc = "done"
             /\ reply.value = << >>
        /\ pc = "done" =>
             \A k \in 1..Len(reply.value) :
                 reply.value[k].state = get_changes_state(params)

\* PENDING instances were listed while the server also holds approved ones
C7_Witness ==
    /\ module = MODULE_GET_CHANGES
    /\ pc = "done"
    /\ params[FIELDS_STATE] = NETORCA_STATES_PENDING
    /\ Len(reply.value) > 0
    /\ \E k \in 1..Len(db) : db[k].state = NETORCA_STATES_APPROVED

\* login has returned to run_module
LoginReturned ==
    /\ Len(requests) >= 1
    /\ requests[1].method = "POST"
    /\ IsAnswered(1)
    /\ pc # "raised" \/ Len(requests) > 1

\* C8 (as claimed): login returns exactly the token field of the response
\* and never returns a null or empty token as a success.
C8_LoginToken ==
    LoginReturned =>
        /\ api_key = outcomes[1].body.token
        /\ api_key # NONE
        /\ api_key # ""

\* C9: update_change_instance(uuid, data) sends one PUT to the change
\* instance uuid with the state and the deployed_item the caller supplied,
\* and hands the server's response object unchanged to the caller.
C9_UpdateVerbatim ==
    /\ (module = MODULE_UPDATE /\ pc \in { "update", "done" }) =>
         /\ Len(Puts) = 1
         /\ Puts[1].url = << params[FIELDS_URL], PATH_CHANGE_INSTANCES,
                             params[FIELDS_UUID], "/" >>
         /\ Puts[1].json.state = params[FIELDS_STATE]
         /\ IF Truthy(params[FIELDS_DEPLOYED_ITEM])
            THEN Puts[1].json.deployed_item = params[FIELDS_DEPLOYED_ITEM]
            ELSE "deployed_item" \notin DOMAIN Puts[1].json
    /\ (module = MODULE_UPDATE /\ pc = "done") =>
         /\ reply.returned
         /\ reply.value = outcomes[Len(requests)].body
         /\ exit.change_instance = outcomes[Len(requests)].body

\* an update of a held instance returned the server's new representation
C9_Witness ==
    /\ module = MODULE_UPDATE
    /\ pc = "done"
    /\ outcomes[Len(requests)].outcome = "ok"
    /\ reply.value.uuid = params[FIELDS_UUID]
    /\ reply.value.deployed_item = params[FIELDS_DEPLOYED_ITEM]
    /\ reply.value.deployed_item # NONE

\* C10 (as claimed): every PUT carries description and state, and
\* optionally deployed_item, with the fixed placeholder as description.
C10_PutBody ==
    \A k \in PutIndices :
        /\ { "description", "state" } \subseteq DOMAIN requests[k].json
        /\ DOMAIN requests[k].json \subseteq { "description", "state", "deployed_item" }
        /\ requests[k].json.description = [ test |-> "test" ]


\* the indices of the login requests
PostIndices == { k \in 1..Len(requests) : requests[k].method = "POST" }

\* the playbook supplied a pre-issued API key
KeySupplied == params[FIELDS_API_KEY] # NONE /\ params[FIELDS_API_KEY] # ""

\* C11: login is called once, as the first request, when no API key is
\* supplied and not at all when one is; every list and update request
\* carries the one token of the invocation (the supplied key, or the token
\* login returned), and none of them leaves before that token is held.
C11_TokenOnce ==
    /\ Cardinality(PostIndices) <= 1
    /\ PostIndices \subseteq { 1 }
    /\ KeySupplied => PostIndices = {}
    /\ (~KeySupplied /\ pc \notin { "start", "failed" }) => PostIndices = { 1 }
    /\ \A k \in 1..Len(requests) :
         requests[k].method # "POST" =>
             /\ requests[k].headers = [ Authorization |-> << "Token ", api_key >> ]
             /\ IF KeySupplied
                THEN api_key = params[FIELDS_API_KEY]
                ELSE /\ IsAnswered(1)
                     /\ outcomes[1].outcome = "ok"
                     /\ api_key = outcomes[1].body.token

\* a completion run that logged in and sent a list request and two updates,
\* all with the token login returned
C11_Witness ==
    /\ module = MODULE_COMPLETE
    /\ ~KeySupplied
    /\ PostIndices = { 1 }
    /\ Len(Puts) = 2
    /\ api_key = "abc123"
    /\ \A k \in 2..Len(requests) :
         requests[k].headers.Authorization = << "Token ", "abc123" >>


\* the playbook supplied neither an API key nor a username with a password
NoCredentials ==
    /\ ~Truthy(params[FIELDS_API_KEY])
    /\ ~(Truthy(params[FIELDS_USER]) /\ Truthy(params[FIELDS_PASS]))

\* the playbook supplied a state outside the recognised set
UnknownState ==
    /\ FIELDS_STATE \in DOMAIN params
    /\ Truthy(params[FIELDS_STATE])
    /\ params[FIELDS_STATE] \notin NETORCA_VALID_STATES

\* C12 (as claimed): with malformed parameters (no API key and no full
\* username/password pair, a URL that is not well-formed, or an unknown
\* state) the invocation fails validation and sends no request at all.
C12_ValidationBeforeIO ==
    (NoCredentials \/ ~url_valid(params[FIELDS_URL]) \/ UnknownState) =>
        /\ requests = << >>
        /\ pc \in { "start", "failed" }


\* C13: a run sends at most one list request and never asks for a further
\* page: what get_change_instances and get_service_items return is taken
\* from the one page answered, however many entries the server counts; and
\* a completion run sends at most one PUT per listed instance, whatever the
\* answers were.
C13_NoRepeat ==
    /\ Cardinality(GetIndices) <= 1
    /\ Cardinality(PostIndices) <= 1
    /\ (module \in { MODULE_GET_CHANGES, MODULE_GET_SERVICE_ITEMS } /\ pc = "done") =>
         /\ Cardinality(GetIndices) = 1
         /\ requests[Len(requests)].method = "GET"
         /\ reply.value = IF ListBody.count = 0 THEN << >> ELSE ListBody.results
    /\ module = MODULE_COMPLETE =>
         /\ \A j, k \in PutIndices :
                uuid_of(requests[j].url) = uuid_of(requests[k].url) => j = k
         /\ Len(Puts) <= Len(approved_changes)
         /\ \A k \in GetIndices : \A j \in PutIndices : k < j

\* a completion run that ended after one list request whose page was
\* shorter than the server's count and two PUTs, the first one rejected
C13_Witness ==
    /\ CompleteDone
    /\ Cardinality(GetIndices) = 1
    /\ "results" \in DOMAIN ListBody
    /\ ListBody.count > Len(ListBody.results)
    /\ Len(Puts) = 2
    /\ outcomes[Len(requests) - 1].outcome = "http_error"

----------------------------------------------------------------------------
(* Two invocations against one server.  Each invocation is a process of its
   own (Ansible starts one per task and host); they share nothing but the
   server.  A request is put on the invocation's wire, the server handles
   the requests on the wires in any order, and the invocation reads the
   answer.  Both invocations were given an api_key, so neither logs in. *)

CLIENTS == { "A", "B" }

CONCURRENT_MODULES == { MODULE_COMPLETE, MODULE_UPDATE }

\* the parameters an invocation gets past validate_params with, api_key given
ConcurrentParams(m) ==
    { p \in ParamsOf(m) : validate_params(m, p) /\ ~needs_login(p) }

\* the server's instances, in the order they were created: at most one for
\* each invocation, so that all of them are listed on one page
ConcurrentDbs ==
    { l \in InitialDbs :
        /\ Len(l) <= Cardinality(CLIENTS)
        /\ Len(l) <= PageSize
        /\ \A k \in 1..Len(l) : l[k].uuid = UUID_NAMES[k] }

\* an invocation after validate_params, with its api_key as the token
Client(m, p) ==
    [ module |-> m, params |-> p, pc |-> "authed", api_key |-> p[FIELDS_API_KEY],
      approved_changes |-> << >>, idx |-> 0, result |-> result_start,
      reply |-> NO_REPLY, exit |-> NO_EXIT, wire |-> << >>, answer |-> << >> ]

InitConcurrent ==
    /\ module = MODULE_COMPLETE
    /\ params = [ url |-> BAD_URL ]
    /\ pc = "off"
    /\ api_key = NONE
    /\ db \in ConcurrentDbs
    /\ requests = << >>
    /\ outcomes = << >>
    /\ inflight = {}
    /\ response = NO_RESPONSE
    /\ approved_changes = << >>
    /\ idx = 0
    /\ result = result_start
    /\ reply = NO_REPLY
    /\ exit = NO_EXIT
    /\ FilterIdle
    /\ clients \in { [ c \in CLIENTS |-> IF c = "A" THEN a ELSE b ] :
                       a \in UNION { { Client(m, p) : p \in ConcurrentParams(m) } :
                                       m \in CONCURRENT_MODULES },
                       b \in UNION { { Client(m, p) : p \in ConcurrentParams(m) } :
                                       m \in CONCURRENT_MODULES } }
    /\ applied = << >>

\* what a concurrent step leaves alone besides the clients and the server
ConcurrentFrame ==
    /\ UNCHANGED << module, params, pc, api_key, requests, outcomes, inflight,
                    response, approved_changes, idx, result, reply, exit >>
    /\ UNCHANGED filterVars

\* run_module after validation: the first request of the invocation
concurrent_core_call(c) ==
    LET me == clients[c]
    IN  /\ me.pc = "authed"
        /\ clients' =
             [ clients EXCEPT ![c] =
                 IF me.module = MODULE_COMPLETE
                 THEN [ me EXCEPT
                          !.result = result_start,
                          !.wire = << get_change_instances_request(
                                        me.params[FIELDS_URL], me.api_key,
                                        NETORCA_STATES_APPROVED) >>,
                          !.pc = "list" ]
                 ELSE [ me EXCEPT
                          !.wire = << update_change_instance_request(
                                        me.params[FIELDS_URL], me.api_key,
                                        me.params[FIELDS_UUID],
                                        update_data(me.params)) >>,
                          !.pc = "update" ] ]
        /\ UNCHANGED << db, applied >>
        /\ ConcurrentFrame

\* the server answers the GET on c's wire from its instances of that moment
server_lists(c) ==
    LET me == clients[c]
    IN  /\ me.wire # << >>
        /\ me.wire[1].method = "GET"
        /\ LET matching == server_matching(db, me.wire[1].url)
           IN  clients' =
                 [ clients EXCEPT ![c] =
                     [ me EXCEPT
                         !.wire = << >>,
                         !.answer = << [ count |-> Len(matching),
                                         results |-> first_page(matching) ] >> ] ]
        /\ UNCHANGED << db, applied >>
        /\ ConcurrentFrame

\* get_change_instances returns to complete_change_instances
concurrent_get_change_instances_returns(c) ==
    LET me == clients[c]
    IN  /\ me.pc = "list"
        /\ me.answer # << >>
        /\ clients' =
             [ clients EXCEPT ![c] =
                 [ me EXCEPT
                     !.approved_changes =
                         get_change_instances_result(
                             me.answer[1], me.params[FIELDS_SERVICE]).value,
                     !.idx = 0,
                     !.answer = << >>,
                     !.pc = "loop" ] ]
        /\ UNCHANGED << db, applied >>
        /\ ConcurrentFrame

\* complete_change_instances: the for loop sends the PUT of the next change
concurrent_complete_loop_update(c) ==
    LET me == clients[c]
    IN  /\ me.pc = "loop"
        /\ me.idx < Len(me.approved_changes)
        /\ clients' =
             [ clients EXCEPT ![c] =
                 [ me EXCEPT
                     !.wire = << update_change_instance_request(
                                   me.params[FIELDS_URL], me.api_key,
                                   loop_change(me.approved_changes, me.idx).uuid,
                                   complete_data(me.params[FIELDS_DEPLOYED_ITEM])) >>,
                     !.pc = "update" ] ]
        /\ UNCHANGED << db, applied >>
        /\ ConcurrentFrame

\* complete_change_instances: the for loop is exhausted
concurrent_complete_loop_end(c) ==
    LET me == clients[c]
        final == result_final(me.result)
    IN  /\ me.pc = "loop"
        /\ me.idx >= Len(me.approved_changes)
        /\ clients' =
             [ clients EXCEPT ![c] =
                 [ me EXCEPT
                     !.result = final,
                     !.reply = [ returned |-> TRUE, value |-> final ],
                     !.exit = IF ~final.successful
                              THEN [ kind |-> "fail_json" ]
                              ELSE [ kind |-> "exit_json",
                                     changed |-> final.count > 0,
                                     message |-> final.msg ],
                     !.pc = "done" ] ]
        /\ UNCHANGED << db, applied >>
        /\ ConcurrentFrame

\* the other invocations whose PUT is on the wire at this moment
OthersOnWire(c) ==
    { o \in CLIENTS \ { c } :
        clients[o].wire # << >> /\ clients[o].wire[1].method = "PUT" }

\* the server applies the PUT on c's wire and answers with the updated
\* representation
server_applies(c) ==
    LET me == clients[c]
    IN  /\ me.wire # << >>
        /\ me.wire[1].method = "PUT"
        /\ uuid_of(me.wire[1].url) \in ServerUuids
        /\ db' = server_put(db, uuid_of(me.wire[1].url), me.wire[1].json)
        /\ applied' = Append(applied, [ client |-> c, request |-> me.wire[1],
                                        beside |-> OthersOnWire(c) ])
        /\ clients' =
             [ clients EXCEPT ![c] =
                 [ me EXCEPT
                     !.wire = << >>,
                     !.answer = << server_representation(
                                     db', uuid_of(me.wire[1].url)) >> ] ]
        /\ ConcurrentFrame

\* the server rejects the PUT on c's wire with a JSON error body
server_rejects(c) ==
    LET me == clients[c]
    IN  /\ me.wire # << >>
        /\ me.wire[1].method = "PUT"
        /\ clients' =
             [ clients EXCEPT ![c] =
                 [ me EXCEPT !.wire = << >>, !.answer = << ERROR_BODY >> ] ]
        /\ UNCHANGED << db, applied >>
        /\ ConcurrentFrame

\* update_change_instance returns the answer to its caller
concurrent_update_change_instance_returns(c) ==
    LET me == clients[c]
        r == update_change_instance_return(me.answer[1])
    IN  /\ me.pc = "update"
        /\ me.answer # << >>
        /\ clients' =
             [ clients EXCEPT ![c] =
                 IF me.module = MODULE_COMPLETE
                 THEN [ me EXCEPT
                          !.result = result_counted(me.result),
                          !.idx = me.idx + 1,
                          !.answer = << >>,
                          !.pc = "loop" ]
                 ELSE [ me EXCEPT
                          !.reply = [ returned |-> TRUE, value |-> r ],
                          !.exit = [ kind |-> "exit_json", changed |-> TRUE,
                                     change_instance |-> r,
                                     message |-> << "Updated ",
                                                    me.params[FIELDS_UUID],
                                                    " change item" >> ],
                          !.answer = << >>,
                          !.pc = "done" ] ]
        /\ UNCHANGED << db, applied >>
        /\ ConcurrentFrame

\* requests raises in c (the transport fails): the invocation ends with the
\* exception, and a request still on the wire may reach the server later
concurrent_request_raises(c) ==
    LET me == clients[c]
    IN  /\ me.pc \in { "list", "update" }
        /\ clients' = [ clients EXCEPT ![c] = [ me EXCEPT !.pc = "raised" ] ]
        /\ UNCHANGED << db, applied >>
        /\ ConcurrentFrame

NextConcurrent ==
    \/ \E c \in CLIENTS : concurrent_core_call(c)
    \/ \E c \in CLIENTS : server_lists(c)
    \/ \E c \in CLIENTS : concurrent_get_change_instances_returns(c)
    \/ \E c \in CLIENTS : concurrent_complete_loop_update(c)
    \/ \E c \in CLIENTS : concurrent_complete_loop_end(c)
    \/ \E c \in CLIENTS : server_applies(c)
    \/ \E c \in CLIENTS : server_rejects(c)
    \/ \E c \in CLIENTS : concurrent_update_change_instance_returns(c)
    \/ \E c \in CLIENTS : concurrent_request_raises(c)

SpecConcurrent == InitConcurrent /\ [][NextConcurrent]_vars

----------------------------------------------------------------------------
(* Reading a concurrent run *)

\* the positions of applied at which the server wrote to uuid
AppliedTo(uuid) ==
    { k \in 1..Len(applied) : uuid_of(applied[k].request.url) = uuid }

\* the invocation whose PUT to uuid the server applied last
LastWriter(uuid) ==
    applied[CHOOSE k \in AppliedTo(uuid) : \A j \in AppliedTo(uuid) : j <= k].client

\* the state invocation c was asked to give its change instances
SuppliedState(c) ==
    IF clients[c].module = MODULE_COMPLETE
    THEN NETORCA_STATES_COMPLETED
    ELSE clients[c].params[FIELDS_STATE]

\* the deployed item invocation c was given
SuppliedItem(c) == clients[c].params[FIELDS_DEPLOYED_ITEM]

\* C14: with two invocations running against one server, no PUT carries a
\* version or a precondition, no invocation fails or is refused by the
\* module because of the other, and every change instance the server wrote
\* to has the state and the deployed item of the invocation whose PUT the
\* server applied last
C14_LastWriteWins ==
    /\ \A k \in 1..Len(applied) :
         /\ DOMAIN applied[k].request.headers = { "Authorization" }
         /\ DOMAIN applied[k].request.json
                \subseteq { "state", "deployed_item", "description" }
    /\ \A c \in DOMAIN clients :
         /\ clients[c].exit.kind # "fail_json"
         /\ (clients[c].pc = "done" /\ clients[c].module = MODULE_UPDATE) =>
                clients[c].exit.changed
         /\ (clients[c].pc = "done" /\ clients[c].module = MODULE_COMPLETE) =>
                /\ clients[c].result.successful
                /\ clients[c].idx = Len(clients[c].approved_changes)
                /\ clients[c].result.count = Len(clients[c].approved_changes)
    /\ \A k \in 1..Len(db) :
         AppliedTo(db[k].uuid) # {} =>
             /\ db[k].state = SuppliedState(LastWriter(db[k].uuid))
             /\ Truthy(SuppliedItem(LastWriter(db[k].uuid))) =>
                    db[k].deployed_item = SuppliedItem(LastWriter(db[k].uuid))

C14_Witness ==
    /\ clients # << >>
    /\ \A c \in CLIENTS : clients[c].pc = "done"
    /\ Len(applied) = 2
    /\ applied[1].client # applied[2].client
    /\ applied[1].beside = { applied[2].client }
    /\ uuid_of(applied[1].request.url) = uuid_of(applied[2].request.url)
    /\ Truthy(SuppliedItem(applied[1].client))
    /\ Truthy(SuppliedItem(applied[2].client))
    /\ SuppliedItem(applied[1].client) # SuppliedItem(applied[2].client)
    /\ \E k \in 1..Len(db) :
         /\ db[k].uuid = uuid_of(applied[2].request.url)
         /\ db[k].deployed_item = SuppliedItem(applied[2].client)
         /\ db[k].state = SuppliedState(applied[2].client)

\* the uuids of the instances of service in the answer to the list request
ListedUuids(service) ==
    IF ~ListAnswered THEN {}
    ELSE { ListBody.results[k].uuid : k \in MatchPositions(ListBody, service) }

\* C15: in a completion run the only GET is the list request with the
\* state=APPROVED filter, it is sent before every PUT, and every PUT goes to
\* the uuid of an instance of that request's response whose
\* service_item.service.name is the requested service name; no instance is
\* read again between the list request and its PUT
C15_OnlyListedOfService ==
    module = MODULE_COMPLETE =>
        /\ \A k \in GetIndices :
             /\ requests[k].url =
                    << params[FIELDS_URL], PATH_CHANGE_INSTANCES, "?state=",
                       NETORCA_STATES_APPROVED >>
             /\ \A j \in k + 1..Len(requests) : requests[j].method = "PUT"
        /\ \A j \in PutIndices :
             /\ GetIndices # {}
             /\ uuid_of(requests[j].url) \in ListedUuids(params[FIELDS_SERVICE])
             /\ requests[j - 1].method \in { "GET", "PUT" }

C15_Witness ==
    /\ CompleteDone
    /\ Len(Puts) >= 1
    /\ "results" \in DOMAIN ListBody
    /\ \E k \in 1..Len(ListBody.results) :
         /\ ListBody.results[k].service_item.service.name # params[FIELDS_SERVICE]
         /\ \A j \in PutIndices : uuid_of(requests[j].url) # ListBody.results[k].uuid
    /\ \E k \in 1..Len(db) :
         /\ db[k].service_item.service.name = params[FIELDS_SERVICE]
         /\ db[k].state = NETORCA_STATES_PENDING
         /\ \A j \in PutIndices : uuid_of(requests[j].url) # db[k].uuid

\* the state parameter of netorca_get_changes was left out or left empty
StateOmitted == ~Truthy(params[FIELDS_STATE])

\* C16 (as claimed): in netorca_get_changes with a valid url and credentials,
\* a state that is omitted or one of the recognised states passes
\* validation, and the list request filters by the supplied state, or by
\* APPROVED when the state is omitted
C16_StateOptional ==
    ( /\ module = MODULE_GET_CHANGES
      /\ url_valid(params[FIELDS_URL])
      /\ ~NoCredentials
      /\ (StateOmitted \/ params[FIELDS_STATE] \in NETORCA_VALID_STATES) ) =>
        /\ pc # "failed"
        /\ \A k \in GetIndices :
             requests[k].url =
                 << params[FIELDS_URL], PATH_CHANGE_INSTANCES, "?state=",
                    IF StateOmitted THEN NETORCA_STATES_APPROVED
                    ELSE params[FIELDS_STATE] >>

====
